---- MODULE Spec2Model ----
(***************************************************************************)
(* State machine of the TilePad Twitch plugin (src/src/state.rs,           *)
(* src/src/plugin.rs, src/src/action.rs).                                  *)
(*                                                                         *)
(* The plugin runs on one thread (tokio current_thread + LocalSet,         *)
(* main.rs): a host callback runs to its end, a spawned task runs from one *)
(* await to the next, and nothing else runs in between.  One action of the *)
(* model is one such uninterrupted segment.                                *)
(***************************************************************************)
EXTENDS Integers, Sequences, FiniteSets, TLC

VARIABLES
    access_state,   \* State.access_state: the AccessState inside the Mutex
    lock_held,      \* the Mutex of access_state is locked
    blocked,        \* the only thread is parked inside Mutex::lock()
    inspector,      \* State.inspector: None or the registered Inspector
    inspector_out,  \* messages handed to Inspector::send, in order
    tasks,          \* tasks given to spawn_local, in spawn order
    calls,          \* platform (Helix) requests issued, in issue order
    session_properties,  \* last value given to session.set_properties
    opened_url,     \* last URL given to session.open_url
    last_opened,    \* the Inspector of the host's latest on_inspector_open
    now,            \* Instant::now(), in seconds
    view_displays,  \* State.view_displays: the Vec of ViewCountDisplay
    viewers,        \* State.viewers: the cached viewer count
    display_out     \* the last message handed to Display::send

\* what the viewer count scheduler and the display messages work on
view_vars == <<now, view_displays, viewers, display_out>>

vars == <<access_state, lock_held, blocked, inspector, inspector_out,
          tasks, calls, session_properties, opened_url, last_opened, view_vars>>

(***************************************************************************)
(* Bounds of the model.                                                    *)
(***************************************************************************)
MaxAuthTasks == 2      \* tasks spawned by on_properties / on_deep_link
MaxGetState == 1       \* inspector_out entries up to which GET_STATE is taken
MaxTasks == 2          \* tasks spawned in all, where tiles are clicked
MaxText == 2           \* chars of the short texts of the payloads

None == "None"
AccessTokens == {"tokA", "tokB"}
Inspectors == {"insp1"}
Scopes == "user:write:chat"

\* the authorize URL of ImplicitUserTokenBuilder (plugin.rs 106-113)
AuthUrl == "https://id.twitch.tv/oauth2/authorize"

\* Properties { access: None } (plugin.rs 33-41)
NoAccess == [access_token |-> None, scopes |-> None]

\* UserToken::from_existing: the validated token with the account it belongs to
UserIdOf(access_token) ==
    CASE access_token = "tokA" -> "userA"
      [] access_token = "tokB" -> "userB"
      [] OTHER -> None
UserToken(access_token) ==
    [access_token |-> access_token, user_id |-> UserIdOf(access_token)]
NoUserToken == UserToken(None)

(***************************************************************************)
(* AccessState (state.rs 32-41).                                           *)
(***************************************************************************)
NotAuthenticate == [tag |-> "NotAuthenticate", user_token |-> NoUserToken]
Loading == [tag |-> "Loading", user_token |-> NoUserToken]
Authenticated(user_token) == [tag |-> "Authenticated", user_token |-> user_token]

\* The tag update_inspector sends for each variant (state.rs 67-83)
StateTag(state) ==
    CASE state.tag = "NotAuthenticate" -> "NOT_AUTHENTICATED"
      [] state.tag = "Loading" -> "LOADING"
      [] state.tag = "Authenticated" -> "AUTHENTICATED"

(***************************************************************************)
(* State::update_inspector (state.rs 64-85), called with access_state      *)
(* being `state` and the mutex being locked or not (`held`).  With an      *)
(* inspector registered it locks the mutex: parking_lot's Mutex is not     *)
(* reentrant, so when the caller still holds the guard the thread parks    *)
(* for ever and nothing is sent.                                           *)
(***************************************************************************)
update_inspector(state, held) ==
    IF inspector = None
    THEN [out |-> inspector_out, blocked |-> FALSE]
    ELSE IF held
    THEN [out |-> inspector_out, blocked |-> TRUE]
    ELSE [out |-> Append(inspector_out,
                         [to |-> inspector, state |-> StateTag(state)]),
          blocked |-> FALSE]

(***************************************************************************)
(* State::set_logged_out (state.rs 58-62).  The guard of line 59 is a      *)
(* temporary whose life is extended to the end of the function, so         *)
(* update_inspector at line 61 runs with the mutex held.                   *)
(***************************************************************************)
set_logged_out ==
    LET r == update_inspector(NotAuthenticate, TRUE) IN
    /\ access_state' = NotAuthenticate
    /\ inspector_out' = r.out
    /\ blocked' = r.blocked
    /\ lock_held' = r.blocked

(***************************************************************************)
(* The mutex when a segment of a task ends at an await.  The guards that   *)
(* attempt_auth takes live in blocks of their own (state.rs 94-97,         *)
(* 104-107), and the guards of get_user_token (114-120) and of             *)
(* update_inspector (66-84) end with the function, before the caller       *)
(* awaits anything: every guard the segment took has been dropped.         *)
(***************************************************************************)
guard_kept == TRUE
guard_dropped == FALSE

(***************************************************************************)
(* Tasks and platform calls.                                               *)
(***************************************************************************)
\* A task: what it runs (kind, arg), where it stands (pc), what it keeps across
\* its awaits (tmp), and how it ended (result).  The task of an attempt_auth
\* keeps in tmp the places in inspector_out of the messages it sent.
Task(kind, arg) ==
    [kind |-> kind, pc |-> "spawned", arg |-> arg, tmp |-> <<>>, result |-> None]

Call(task, op, user_token, body) ==
    [task |-> task, op |-> op, token |-> user_token, body |-> body,
     status |-> "pending", resp |-> None]

spawn_local(task) == tasks' = Append(tasks, task)

Finish(i, result) ==
    tasks' = [tasks EXCEPT ![i].pc = "done", ![i].result = result]

\* the index in calls of the request task i is awaiting
PendingCall(i) ==
    CHOOSE c \in 1..Len(calls) : calls[c].task = i /\ calls[c].status = "pending"

Complete(i, status, resp) ==
    calls' = [calls EXCEPT ![PendingCall(i)].status = status,
                           ![PendingCall(i)].resp = resp]

AuthKinds == {"on_properties", "on_deep_link"}
NumAuthTasks == Cardinality({i \in 1..Len(tasks) : tasks[i].kind \in AuthKinds})

(***************************************************************************)
(* Host callbacks (plugin.rs).                                             *)
(***************************************************************************)

\* Plugin::on_properties (plugin.rs 59-80); access is "malformed" when the
\* value does not parse as Properties, else None or the stored access token
on_properties(access) ==
    /\ ~blocked
    /\ IF access = "malformed"
       THEN UNCHANGED vars
       ELSE /\ set_logged_out
            /\ IF blocked'
               THEN UNCHANGED tasks
               ELSE spawn_local(Task("on_properties", access))
            /\ UNCHANGED <<view_vars, last_opened, inspector, calls,
                           session_properties, opened_url>>

\* State::set_inspector (state.rs 54-56): the one slot is overwritten
set_inspector_unless_registered(new) == IF inspector = None THEN new ELSE inspector
set_inspector(new) == new

\* Plugin::on_inspector_open (plugin.rs 82-84)
on_inspector_open(insp) ==
    /\ ~blocked
    /\ inspector' = set_inspector(insp)
    /\ last_opened' = insp
    /\ UNCHANGED <<view_vars, access_state, lock_held, blocked, inspector_out,
                   tasks, calls, session_properties, opened_url>>

\* Plugin::on_inspector_close (plugin.rs 86-88)
on_inspector_close ==
    /\ ~blocked
    /\ inspector' = set_inspector(None)
    /\ UNCHANGED <<view_vars, last_opened, access_state, lock_held, blocked,
                   inspector_out, tasks, calls, session_properties,
                   opened_url>>

InspectorMessages == {"GET_STATE", "OPEN_AUTH_URL", "LOGOUT", "malformed"}

\* Plugin::on_inspector_message (plugin.rs 90-122)
on_inspector_message(message) ==
    /\ ~blocked
    /\ CASE message = "GET_STATE" ->
              LET r == update_inspector(access_state, FALSE) IN
              /\ inspector_out' = r.out
              /\ UNCHANGED <<view_vars, last_opened, access_state, lock_held,
                             blocked, inspector, tasks, calls,
                             session_properties, opened_url>>
         [] message = "OPEN_AUTH_URL" ->
              /\ opened_url' = AuthUrl
              /\ UNCHANGED <<view_vars, last_opened, access_state, lock_held,
                             blocked, inspector, inspector_out, tasks, calls,
                             session_properties>>
         [] message = "LOGOUT" ->
              /\ set_logged_out
              /\ IF blocked'
                 THEN UNCHANGED session_properties
                 ELSE session_properties' = [written |-> TRUE, access |-> NoAccess]
              /\ UNCHANGED <<view_vars, last_opened, inspector, tasks, calls,
                             opened_url>>
         [] OTHER -> UNCHANGED vars

\* Plugin::on_deep_link (plugin.rs 253-293), up to the spawn; fragment is
\* absent ("none"), "malformed" or a decoded DeepLinkFragment ("ok")
on_deep_link(fragment) ==
    /\ ~blocked
    /\ IF fragment.kind # "ok"
       THEN UNCHANGED vars
       ELSE /\ spawn_local(Task("on_deep_link", fragment))
            /\ UNCHANGED <<view_vars, last_opened, access_state, lock_held,
                           blocked, inspector, inspector_out, calls,
                           session_properties, opened_url>>

Fragments ==
    {[kind |-> k, access_token |-> None, scope |-> None] : k \in {"none", "malformed"}}
        \cup {[kind |-> "ok", access_token |-> t, scope |-> Scopes] : t \in AccessTokens}

(***************************************************************************)
(* State::attempt_auth (state.rs 93-112) inside the tasks of on_properties *)
(* (plugin.rs 72-79) and on_deep_link (plugin.rs 279-292).                 *)
(***************************************************************************)

\* the access token the task passes to attempt_auth
AuthToken(task) ==
    IF task.kind = "on_properties" THEN task.arg ELSE task.arg.access_token

\* the places of the messages a step added to inspector_out
Sent(before, after) == [k \in 1..(Len(after) - Len(before)) |-> Len(before) + k]

\* what a failed validation leaves: the ? of state.rs 102 returns at once
auth_failed_reverts == NotAuthenticate
auth_failed == access_state

\* the state written once the token is validated (state.rs 104-107)
auth_committed_unless_authenticated(access_token) ==
    IF access_state.tag = "Authenticated"
    THEN access_state
    ELSE Authenticated(UserToken(access_token))
auth_committed_unless_logged_out(access_token) ==
    IF access_state.tag = "NotAuthenticate"
    THEN access_state
    ELSE Authenticated(UserToken(access_token))
auth_committed(access_token) == Authenticated(UserToken(access_token))

\* first poll: up to the await of create_user_token (state.rs 94-102)
attempt_auth_begin(i) ==
    /\ ~blocked
    /\ tasks[i].kind \in AuthKinds
    /\ tasks[i].pc = "spawned"
    /\ IF tasks[i].kind = "on_properties" /\ tasks[i].arg = None
       THEN /\ Finish(i, "no_access")
            /\ UNCHANGED <<view_vars, last_opened, access_state, lock_held,
                           blocked, inspector, inspector_out, calls,
                           session_properties, opened_url>>
       ELSE LET out == update_inspector(Loading, FALSE).out IN
            /\ access_state' = Loading
            /\ inspector_out' = out
            /\ calls' = Append(calls,
                    Call(i, "validate", NoUserToken, AuthToken(tasks[i])))
            /\ tasks' = [tasks EXCEPT ![i].pc = "validating",
                                      ![i].tmp = Sent(inspector_out, out)]
            /\ lock_held' = guard_dropped
            /\ UNCHANGED <<view_vars, last_opened, blocked, inspector,
                           session_properties, opened_url>>

\* the validation answers: the rest of attempt_auth (state.rs 102-111) and of
\* the task that called it
attempt_auth_end(i, outcome) ==
    /\ ~blocked
    /\ tasks[i].kind \in AuthKinds
    /\ tasks[i].pc = "validating"
    /\ Complete(i, outcome, None)
    /\ IF outcome = "err"
       THEN /\ Finish(i, "err")
            /\ access_state' = auth_failed
            /\ UNCHANGED <<view_vars, last_opened, lock_held, blocked,
                           inspector, inspector_out, session_properties,
                           opened_url>>
       ELSE LET state == auth_committed(AuthToken(tasks[i]))
                out == update_inspector(state, FALSE).out
            IN
            /\ access_state' = state
            /\ inspector_out' = out
            /\ tasks' = [tasks EXCEPT ![i].pc = "done", ![i].result = "ok",
                                      ![i].tmp = @ \o Sent(inspector_out, out)]
            /\ session_properties' =
                 IF tasks[i].kind = "on_deep_link"
                 THEN [written |-> TRUE,
                       access |-> [access_token |-> tasks[i].arg.access_token,
                                   scopes |-> tasks[i].arg.scope]]
                 ELSE session_properties
            /\ lock_held' = guard_dropped
            /\ UNCHANGED <<view_vars, last_opened, blocked, inspector,
                           opened_url>>

Outcomes == {"ok", "err"}

(***************************************************************************)
(* Text.  A String is the sequence of its chars, a char is its code point; *)
(* str::len counts the bytes of the UTF-8 encoding.                        *)
(***************************************************************************)
Utf8Len(c) == IF c < 128 THEN 1 ELSE IF c < 2048 THEN 2 ELSE IF c < 65536 THEN 3 ELSE 4

\* the bytes of the chars lo..hi of str
RECURSIVE Bytes(_, _, _)
Bytes(str, lo, hi) ==
    IF lo > hi THEN 0
    ELSE IF lo = hi THEN Utf8Len(str[lo])
    ELSE LET mid == (lo + hi) \div 2 IN Bytes(str, lo, mid) + Bytes(str, mid + 1, hi)

\* str::len
ByteLen(str) == Bytes(str, 1, Len(str))

\* the string of n chars whose codes follow base
Text(n, base) == [k \in 1..n |-> base + k]

(***************************************************************************)
(* Action::from_action (action.rs 19-37) and the property structs          *)
(* (action.rs 40-54).  A JSON value is [t, s, n]: its type, and its text   *)
(* or its number.  The payload of a tile is [t, message, description,      *)
(* length]: its type and, for an object, the value under each key the      *)
(* structs know ("absent" when the object has no such key).                *)
(***************************************************************************)
JAbsent == [t |-> "absent", s |-> <<>>, n |-> 0]
JNull == [t |-> "null", s |-> <<>>, n |-> 0]
JString(str) == [t |-> "string", s |-> str, n |-> 0]
JNumber(num) == [t |-> "number", s |-> <<>>, n |-> num]

JObject(message, description, length) ==
    [t |-> "object", message |-> message, description |-> description,
     length |-> length]
\* a payload that is no object (null)
JNullPayload ==
    [t |-> "null", message |-> JAbsent, description |-> JAbsent, length |-> JAbsent]

NoText == [some |-> FALSE, v |-> <<>>]
SomeText(str) == [some |-> TRUE, v |-> str]
NoLength == [some |-> FALSE, v |-> 0]
SomeLength(num) == [some |-> TRUE, v |-> num]

\* twitch_api::types::CommercialLength
CommercialLengths == {30, 60, 90, 120, 150, 180}

DeserializeText_required(j) ==
    CASE j.t = "null" -> [ok |-> TRUE, value |-> NoText]
      [] j.t = "string" -> [ok |-> TRUE, value |-> SomeText(j.s)]
      [] OTHER -> [ok |-> FALSE, value |-> NoText]
\* Option<String> of a field
DeserializeText(j) ==
    CASE j.t \in {"absent", "null"} -> [ok |-> TRUE, value |-> NoText]
      [] j.t = "string" -> [ok |-> TRUE, value |-> SomeText(j.s)]
      [] OTHER -> [ok |-> FALSE, value |-> NoText]

\* Option<CommercialLength> of a field
DeserializeLength(j) ==
    CASE j.t \in {"absent", "null"} -> [ok |-> TRUE, value |-> NoLength]
      [] j.t = "number" /\ j.n \in CommercialLengths ->
            [ok |-> TRUE, value |-> SomeLength(j.n)]
      [] OTHER -> [ok |-> FALSE, value |-> NoLength]

Action(variant, message, description, length) ==
    [variant |-> variant, message |-> message, description |-> description,
     length |-> length]
Unit(variant) == Action(variant, NoText, NoText, NoLength)

NoMatch == [tag |-> "None", action |-> Unit("None")]
DecodeErr == [tag |-> "Err", action |-> Unit("None")]
Decoded(action) == [tag |-> "Ok", action |-> action]

\* serde_json::from_value(properties).map(Action::SendMessage), and so on:
\* only an object is a struct, and every field must have its type
from_value(properties, variant) ==
    LET message == DeserializeText(properties.message)
        description == DeserializeText(properties.description)
        length == DeserializeLength(properties.length)
    IN  CASE properties.t # "object" -> DecodeErr
          [] variant = "SendMessage" ->
                IF message.ok
                THEN Decoded(Action(variant, message.value, NoText, NoLength))
                ELSE DecodeErr
          [] variant = "Marker" ->
                IF description.ok
                THEN Decoded(Action(variant, NoText, description.value, NoLength))
                ELSE DecodeErr
          [] variant = "AdBreak" ->
                IF length.ok
                THEN Decoded(Action(variant, NoText, NoText, length.value))
                ELSE DecodeErr

from_action(action_id, properties) ==
    CASE action_id = "send_message" -> from_value(properties, "SendMessage")
      [] action_id = "clear_chat" -> Decoded(Unit("ClearChat"))
      [] action_id = "emote_only" -> Decoded(Unit("EmoteOnly"))
      [] action_id = "follower_only" -> Decoded(Unit("FollowerOnly"))
      [] action_id = "sub_only" -> Decoded(Unit("SubOnly"))
      [] action_id = "slow_mode" -> Decoded(Unit("SlowMode"))
      [] action_id = "ad_break" -> from_value(properties, "AdBreak")
      [] action_id = "marker" -> from_value(properties, "Marker")
      [] action_id = "create_clip" -> Decoded(Unit("CreateClip"))
      [] action_id = "open_clip" -> Decoded(Unit("OpenClip"))
      [] action_id = "viewer_count" -> Decoded(Unit("ViewerCount"))
      [] OTHER -> NoMatch

\* the variants for which on_tile_clicked spawns a task (plugin.rs 167-250)
Spawning ==
    {"SendMessage", "ClearChat", "EmoteOnly", "FollowerOnly", "SubOnly",
     "SlowMode", "AdBreak", "Marker", "CreateClip"}
Toggles == {"EmoteOnly", "FollowerOnly", "SubOnly", "SlowMode"}

\* Plugin::on_tile_clicked (plugin.rs 146-251), up to the spawn
on_tile_clicked(action_id, properties) ==
    LET decoded == from_action(action_id, properties) IN
    /\ ~blocked
    /\ IF decoded.tag = "Ok" /\ decoded.action.variant \in Spawning
       THEN /\ spawn_local(Task(decoded.action.variant, decoded.action))
            /\ UNCHANGED <<view_vars, last_opened, access_state, lock_held,
                           blocked, inspector, inspector_out, calls,
                           session_properties, opened_url>>
       ELSE UNCHANGED vars

(***************************************************************************)
(* State::get_user_token (state.rs 114-120).                               *)
(***************************************************************************)
get_user_token_cached ==
    LET used == SelectSeq(calls, LAMBDA c : c.op # "validate") IN
    IF used # <<>>
    THEN [some |-> TRUE, token |-> used[Len(used)].token]
    ELSE IF access_state.tag = "Authenticated"
    THEN [some |-> TRUE, token |-> access_state.user_token]
    ELSE [some |-> FALSE, token |-> NoUserToken]
get_user_token_unless_logged_out ==
    [some |-> access_state.tag # "NotAuthenticate", token |-> access_state.user_token]
get_user_token ==
    IF access_state.tag = "Authenticated"
    THEN [some |-> TRUE, token |-> access_state.user_token]
    ELSE [some |-> FALSE, token |-> NoUserToken]

(***************************************************************************)
(* The platform operations of one request: send_chat_message (state.rs     *)
(* 122-144), clear_chat (166-174), create_clip (176-187), create_marker    *)
(* (189-201), and start_comercial, in the tasks of plugin.rs 168-245.      *)
(***************************************************************************)
SingleCall == {"SendMessage", "ClearChat", "CreateClip", "Marker", "AdBreak"}

OpOf(variant) ==
    CASE variant = "SendMessage" -> "send_chat_message"
      [] variant = "ClearChat" -> "delete_chat_messages"
      [] variant = "CreateClip" -> "create_clip"
      [] variant = "Marker" -> "create_stream_marker"
      [] variant = "AdBreak" -> "start_commercial"

\* what the task passes on (plugin.rs 175, 219-222, 232)
BodyOf_longest(action) ==
    CASE action.variant = "SendMessage" -> action.message.v
      [] action.variant = "Marker" ->
            IF action.description.some THEN action.description.v ELSE <<>>
      [] action.variant = "AdBreak" ->
            IF action.length.some THEN action.length.v ELSE 180
      [] OTHER -> None
BodyOf(action) ==
    CASE action.variant = "SendMessage" -> action.message.v
      [] action.variant = "Marker" ->
            IF action.description.some THEN action.description.v ELSE <<>>
      [] action.variant = "AdBreak" ->
            IF action.length.some THEN action.length.v ELSE 30
      [] OTHER -> None

\* up to the await of the request: the credential is read, the request built
\* and sent
request(i, op, body) ==
    LET token == get_user_token IN
    IF token.some
    THEN /\ calls' = Append(calls, Call(i, op, token.token, body))
         /\ tasks' = [tasks EXCEPT ![i].pc = "awaiting"]
    ELSE /\ Finish(i, "not_authenticated")
         /\ UNCHANGED calls

\* State::start_comercial, which plugin.rs 218 calls and state.rs does not
\* hold: as the other operations, it takes the credential of the state and
\* issues one start-commercial request with the length it is given
start_comercial(i, length) == request(i, "start_commercial", length)

\* first poll of the task
single_begin(i) ==
    /\ ~blocked
    /\ tasks[i].kind \in SingleCall
    /\ tasks[i].pc = "spawned"
    /\ IF tasks[i].kind = "SendMessage" /\ ~tasks[i].arg.message.some
       THEN Finish(i, "no_message") /\ UNCHANGED calls
       ELSE IF tasks[i].kind = "AdBreak"
       THEN start_comercial(i, BodyOf(tasks[i].arg))
       ELSE request(i, OpOf(tasks[i].kind), BodyOf(tasks[i].arg))
    /\ lock_held' = guard_dropped
    /\ UNCHANGED <<view_vars, last_opened, access_state, blocked, inspector,
                   inspector_out, session_properties, opened_url>>

\* the request answers; the task logs a failure and ends
single_end(i, outcome) ==
    /\ ~blocked
    /\ tasks[i].kind \in SingleCall
    /\ tasks[i].pc = "awaiting"
    /\ Complete(i, outcome, None)
    /\ Finish(i, outcome)
    /\ UNCHANGED <<view_vars, last_opened, access_state, lock_held, blocked,
                   inspector, inspector_out, session_properties, opened_url>>

(***************************************************************************)
(* The toggles: get_chat_settings (state.rs 203-209) and toggle_slow_mode, *)
(* toggle_emote_only, toggle_follower_only, toggle_sub_only (211-257).     *)
(***************************************************************************)
ChatSettings ==
    [slow_mode : BOOLEAN, emote_mode : BOOLEAN, follower_mode : BOOLEAN,
     subscriber_mode : BOOLEAN]

\* UpdateChatSettingsBody::default()
DefaultBody ==
    [slow_mode |-> None, emote_mode |-> None, follower_mode |-> None,
     subscriber_mode |-> None]
SomeBool(b) == IF b THEN "Some(true)" ELSE "Some(false)"

\* the field each toggle reads and writes (state.rs 217, 229, 241, 253)
ToggleField(variant) ==
    CASE variant = "SlowMode" -> "slow_mode"
      [] variant = "EmoteOnly" -> "emote_mode"
      [] variant = "FollowerOnly" -> "follower_mode"
      [] variant = "SubOnly" -> "subscriber_mode"

PatchBody_whole(variant, settings) ==
    [f \in DOMAIN settings |->
        SomeBool(IF f = ToggleField(variant) THEN ~settings[f] ELSE settings[f])]
PatchBody(variant, settings) ==
    [DefaultBody EXCEPT
        ![ToggleField(variant)] = SomeBool(~settings[ToggleField(variant)])]

\* first poll: get_chat_settings up to its await
toggle_begin(i) ==
    /\ ~blocked
    /\ tasks[i].kind \in Toggles
    /\ tasks[i].pc = "spawned"
    /\ request(i, "get_chat_settings", None)
    /\ lock_held' = guard_dropped
    /\ UNCHANGED <<view_vars, last_opened, access_state, blocked, inspector,
                   inspector_out, session_properties, opened_url>>

\* the GET answers: on success the credential is read again and the PATCH sent
toggle_patch(i, outcome, settings) ==
    /\ ~blocked
    /\ tasks[i].kind \in Toggles
    /\ tasks[i].pc = "awaiting"
    /\ calls[PendingCall(i)].op = "get_chat_settings"
    /\ LET token == get_user_token
           done == [calls EXCEPT ![PendingCall(i)].status = outcome,
                                 ![PendingCall(i)].resp =
                                     IF outcome = "ok" THEN settings ELSE None]
       IN  CASE outcome = "err" ->
                  calls' = done /\ Finish(i, "err")
             [] outcome = "ok" /\ ~token.some ->
                  calls' = done /\ Finish(i, "not_authenticated")
             [] outcome = "ok" /\ token.some ->
                  /\ calls' = Append(done,
                        Call(i, "update_chat_settings", token.token,
                             PatchBody(tasks[i].kind, settings)))
                  /\ UNCHANGED tasks
    /\ lock_held' = guard_dropped
    /\ UNCHANGED <<view_vars, last_opened, access_state, blocked, inspector,
                   inspector_out, session_properties, opened_url>>

\* the PATCH answers
toggle_end(i, outcome) ==
    /\ ~blocked
    /\ tasks[i].kind \in Toggles
    /\ tasks[i].pc = "awaiting"
    /\ calls[PendingCall(i)].op = "update_chat_settings"
    /\ Complete(i, outcome, None)
    /\ Finish(i, outcome)
    /\ UNCHANGED <<view_vars, last_opened, access_state, lock_held, blocked,
                   inspector, inspector_out, session_properties, opened_url>>


(***************************************************************************)
(* State::send_chat_message_chunked (state.rs 146-164).  It is public and  *)
(* plugin.rs never calls it (the SendMessage task calls send_chat_message, *)
(* plugin.rs 175), so the model gives it a caller of its own: a task that  *)
(* awaits send_chat_message_chunked(message) and ends.                     *)
(***************************************************************************)
ChunkLimit == 500

Min(a, b) == IF a < b THEN a ELSE b
\* message.chars() after `taken` chars have been taken from it
Chars(message, taken) == SubSeq(message, taken + 1, Len(message))
\* chars.by_ref().take(n).collect::<String>()
Take(chars, n) == SubSeq(chars, 1, Min(n, Len(chars)))

call_send_chat_message_chunked(message) ==
    /\ ~blocked
    /\ spawn_local(Task("chunked", message))
    /\ UNCHANGED <<view_vars, last_opened, access_state, lock_held, blocked,
                   inspector, inspector_out, calls, session_properties,
                   opened_url>>

\* one turn of the loop of state.rs 153-160, `taken` chars having left the
\* iterator: the break, or send_chat_message up to its await
chunk_loop(i, taken) ==
    LET message == Take(Chars(tasks[i].arg, taken), ChunkLimit)
        token == get_user_token
    IN  IF message = <<>>
        THEN Finish(i, "ok") /\ UNCHANGED calls
        ELSE IF token.some
        THEN /\ calls' = Append(calls, Call(i, "send_chat_message", token.token, message))
             /\ tasks' = [tasks EXCEPT ![i].pc = "chunk",
                                       ![i].tmp = taken + Len(message)]
        ELSE Finish(i, "not_authenticated") /\ UNCHANGED calls

\* first poll: the length test of state.rs 149 and the first send
chunked_begin(i) ==
    /\ ~blocked
    /\ tasks[i].kind = "chunked"
    /\ tasks[i].pc = "spawned"
    /\ IF ByteLen(tasks[i].arg) < ChunkLimit
       THEN request(i, "send_chat_message", tasks[i].arg)
       ELSE chunk_loop(i, 0)
    /\ lock_held' = guard_dropped
    /\ UNCHANGED <<view_vars, last_opened, access_state, blocked, inspector,
                   inspector_out, session_properties, opened_url>>

\* the ? of state.rs 159: a failed send ends the loop
SendFailed_ignored(outcome) == FALSE
SendFailed(outcome) == outcome = "err"

\* a send answers: the failure is returned (the ? of state.rs 150, 159), or
\* the function returns, or the loop takes its next turn
chunked_next(i, outcome) ==
    /\ ~blocked
    /\ tasks[i].kind = "chunked"
    /\ tasks[i].pc \in {"awaiting", "chunk"}
    /\ IF ~SendFailed(outcome) /\ tasks[i].pc = "chunk"
       THEN LET done == [calls EXCEPT ![PendingCall(i)].status = outcome]
                token == get_user_token
                message == Take(Chars(tasks[i].arg, tasks[i].tmp), ChunkLimit)
            IN  IF message = <<>>
                THEN calls' = done /\ Finish(i, "ok")
                ELSE IF token.some
                THEN /\ calls' = Append(done,
                           Call(i, "send_chat_message", token.token, message))
                     /\ tasks' = [tasks EXCEPT ![i].tmp = tasks[i].tmp + Len(message)]
                ELSE calls' = done /\ Finish(i, "not_authenticated")
       ELSE Complete(i, outcome, None) /\ Finish(i, outcome)
    /\ lock_held' = guard_dropped
    /\ UNCHANGED <<view_vars, last_opened, access_state, blocked, inspector,
                   inspector_out, session_properties, opened_url>>

(***************************************************************************)
(* The viewer count: the registry of the displays that asked for it        *)
(* (state.rs 272-300, 319-322), the handler of their messages (plugin.rs   *)
(* 124-144) and the task that polls the platform (state.rs 259-270,        *)
(* 324-345), which on_registered spawns (plugin.rs 55-57).  Time is in     *)
(* seconds.                                                                *)
(***************************************************************************)
LiveSecs == 5       \* Duration::from_secs(5) of get_active_displays
SleepSecs == 5      \* Duration::from_secs(5) of run_view_count_update

ViewCountDisplay(display, last_alive) ==
    [display |-> display, last_alive |-> last_alive]

\* DisplayMessageOut::ViewCount, and display_out before any was sent
ViewCount(display, count) == [to |-> display, count |-> count]
NoViewCount == ViewCount(None, 0)

\* the closure of retain (state.rs 276)
is_alive_inclusive(display, at) == at - display.last_alive <= LiveSecs
is_alive(display, at) == at - display.last_alive < LiveSecs

\* State::get_active_displays (state.rs 273-279): the Vec it leaves, whose
\* length it returns
get_active_displays == SelectSeq(view_displays, LAMBDA d : is_alive(d, now))

\* State::current_view_count (state.rs 281-283)
current_view_count == viewers

\* State::push_active_display (state.rs 285-300): the Vec it leaves
push_active_display_always(display) ==
    Append(view_displays, ViewCountDisplay(display, now))
push_active_display_if_live(display) ==
    LET found == {k \in 1..Len(view_displays) :
                     /\ view_displays[k].display = display
                     /\ is_alive(view_displays[k], now)} IN
    IF found # {}
    THEN LET existing == CHOOSE k \in found : \A l \in found : k <= l IN
         [view_displays EXCEPT ![existing].last_alive = now]
    ELSE Append(view_displays, ViewCountDisplay(display, now))
push_active_display(display) ==
    LET found == {k \in 1..Len(view_displays) : view_displays[k].display = display} IN
    IF found # {}
    THEN LET existing == CHOOSE k \in found : \A l \in found : k <= l IN
         [view_displays EXCEPT ![existing].last_alive = now]
    ELSE Append(view_displays, ViewCountDisplay(display, now))

DisplayMessages == {"GET_VIEW_COUNT", "malformed"}

\* Plugin::on_display_message (plugin.rs 124-144)
on_display_message(display, message) ==
    /\ ~blocked
    /\ IF message = "GET_VIEW_COUNT"
       THEN /\ view_displays' = push_active_display(display)
            /\ display_out' = ViewCount(display, current_view_count)
            /\ UNCHANGED <<now, viewers, last_opened, access_state, lock_held,
                           blocked, inspector, inspector_out, tasks, calls,
                           session_properties, opened_url>>
       ELSE UNCHANGED vars

\* what the polling task remembers of its last turn: when it ran, what it
\* purged and whether it asked the platform
Turn(at, purged, polled) == [at |-> at, purged |-> purged, polled |-> polled]
NoTurn == Turn(0, <<>>, FALSE)

\* Plugin::on_registered (plugin.rs 55-57)
on_registered ==
    /\ ~blocked
    /\ spawn_local([Task("view_count", None) EXCEPT !.tmp = 0, !.result = NoTurn])
    /\ UNCHANGED <<view_vars, last_opened, access_state, lock_held, blocked,
                   inspector, inspector_out, calls, session_properties,
                   opened_url>>

\* what the platform answers to GetStreamsRequest: the first stream of the
\* user, if there is one (state.rs 267-268)
NoStream == [some |-> FALSE, v |-> 0]
Stream(viewer_count) == [some |-> TRUE, v |-> viewer_count]

\* the test of state.rs 328
should_poll_always(active) == TRUE
should_poll(active) == active > 0

\* the sleep of state.rs 343: the task, and when it may wake
sleep(task) == [task EXCEPT !.pc = "sleeping", !.tmp = now + SleepSecs]

\* one turn of the loop of run_view_count_update up to its first await
\* (state.rs 325-343): the purge, then get_view_count (259-267) up to its
\* request, or straight to the sleep
view_count_tick(i) ==
    /\ ~blocked
    /\ tasks[i].kind = "view_count"
    /\ \/ tasks[i].pc = "spawned"
       \/ tasks[i].pc = "sleeping" /\ now >= tasks[i].tmp
    /\ LET displays == get_active_displays
           token == get_user_token
           polled == should_poll(Len(displays)) /\ token.some
           purged == SelectSeq(view_displays, LAMBDA d : ~is_alive(d, now))
           turn == [tasks[i] EXCEPT !.result = Turn(now, purged, polled)]
       IN
       /\ view_displays' = displays
       /\ IF polled
          THEN /\ calls' = Append(calls, Call(i, "get_streams", token.token,
                                              token.token.user_id))
               /\ tasks' = [tasks EXCEPT ![i] = [turn EXCEPT !.pc = "awaiting"]]
          ELSE /\ tasks' = [tasks EXCEPT ![i] = sleep(turn)]
               /\ UNCHANGED calls
    /\ lock_held' = guard_dropped
    /\ UNCHANGED <<now, viewers, display_out, last_opened, access_state,
                   blocked, inspector, inspector_out, session_properties,
                   opened_url>>

\* the cache after the answer (state.rs 329-339): get_view_count gives the
\* count of the first stream, None without one (268), and only Some(count)
\* is stored
replace_viewers_or_zero(outcome, response) ==
    IF outcome = "ok"
    THEN IF response.some THEN response.v ELSE 0
    ELSE viewers
replace_viewers(outcome, response) ==
    IF outcome = "ok" /\ response.some THEN response.v ELSE viewers

\* the request answers: the rest of the turn (state.rs 329-343)
view_count_end(i, outcome, response) ==
    /\ ~blocked
    /\ tasks[i].kind = "view_count"
    /\ tasks[i].pc = "awaiting"
    /\ outcome = "err" => response = NoStream
    /\ Complete(i, outcome, response)
    /\ viewers' = replace_viewers(outcome, response)
    /\ tasks' = [tasks EXCEPT ![i] = sleep(@)]
    /\ UNCHANGED <<now, view_displays, display_out, last_opened, access_state,
                   lock_held, blocked, inspector, inspector_out,
                   session_properties, opened_url>>

\* a second passes
advance_time ==
    /\ now' = now + 1
    /\ UNCHANGED <<view_displays, viewers, display_out, last_opened,
                   access_state, lock_held, blocked, inspector, inspector_out,
                   tasks, calls, session_properties, opened_url>>

(***************************************************************************)
(* The plugin after ExamplePlugin::new() (State::default, state.rs 43-51). *)
(***************************************************************************)
Init ==
    /\ access_state = Loading
    /\ lock_held = FALSE
    /\ blocked = FALSE
    /\ inspector = None
    /\ inspector_out = <<>>
    /\ tasks = <<>>
    /\ calls = <<>>
    /\ session_properties = [written |-> FALSE, access |-> NoAccess]
    /\ opened_url = None
    /\ last_opened = None
    /\ now = 0
    /\ view_displays = <<>>
    /\ viewers = 0
    /\ display_out = NoViewCount

\* the properties the host delivers: unparsable, without access, with a token
StoredAccesses == {"malformed", None, "tokA"}

\* what bounds the runs: the handlers below are taken while these hold
AuthBound == NumAuthTasks < MaxAuthTasks
GetStateBound == Len(inspector_out) < MaxGetState

Next ==
    \/ AuthBound /\ \E access \in StoredAccesses : on_properties(access)
    \/ \E insp \in Inspectors : on_inspector_open(insp)
    \/ on_inspector_close
    \/ \E message \in InspectorMessages \ {"OPEN_AUTH_URL"} :
           /\ message = "GET_STATE" => GetStateBound
           /\ on_inspector_message(message)
    \/ AuthBound /\ \E fragment \in Fragments : on_deep_link(fragment)
    \/ \E i \in 1..Len(tasks) : attempt_auth_begin(i)
    \/ \E i \in 1..Len(tasks), outcome \in Outcomes : attempt_auth_end(i, outcome)

Spec == Init /\ [][Next]_vars

(***************************************************************************)
(* Properties of the session state machine and its observer.               *)
(***************************************************************************)
TagsOf(out) == [k \in 1..Len(out) |-> out[k].state]
Notification(tag) == [to |-> inspector, state |-> tag]

\* a step that runs State::set_logged_out: on_properties with properties that
\* parse, or the LOGOUT of the inspector
CallsSetLoggedOut ==
    \/ \E access \in StoredAccesses \ {"malformed"} : on_properties(access)
    \/ on_inspector_message("LOGOUT")

\* C1: set_logged_out, called in any AccessState and with or without an
\* observer, returns to its caller, leaves the state NotAuthenticated and
\* makes a registered observer receive exactly one notification, which
\* carries NOT_AUTHENTICATED.
C1_SetLoggedOutCompletes ==
    [][CallsSetLoggedOut =>
          /\ ~blocked'
          /\ access_state' = NotAuthenticate
          /\ inspector_out' =
               IF inspector = None THEN inspector_out
               ELSE Append(inspector_out, Notification("NOT_AUTHENTICATED"))]_vars

\* task i is an attempt_auth that succeeded and whose observer got a message
\* at its start and at its end
NotifiedAuth(i) ==
    /\ tasks[i].kind \in AuthKinds
    /\ tasks[i].result = "ok"
    /\ Len(tasks[i].tmp) = 2

\* attempt_auth of task j started after the one of task i had returned
OneAfterTheOther(i, j) ==
    /\ NotifiedAuth(i)
    /\ NotifiedAuth(j)
    /\ tasks[i].tmp[2] < tasks[j].tmp[1]

\* the validation of task j answers with success
AuthSucceeds(j) ==
    /\ j \in 1..Len(tasks)
    /\ tasks[j].kind \in AuthKinds
    /\ tasks[j].pc = "validating"
    /\ tasks'[j].result = "ok"

\* C2: of two attempt_auth calls with valid tokens made one after the other,
\* each makes the observer receive LOADING then AUTHENTICATED (so LOADING,
\* AUTHENTICATED, LOADING, AUTHENTICATED in all), and when the second returns
\* the state is Authenticated with the credential of the second.
C2_RepeatedAuth ==
    /\ [](\A i, j \in 1..Len(tasks) :
            OneAfterTheOther(i, j) =>
                <<inspector_out[tasks[i].tmp[1]].state,
                  inspector_out[tasks[i].tmp[2]].state,
                  inspector_out[tasks[j].tmp[1]].state,
                  inspector_out[tasks[j].tmp[2]].state>>
                    = <<"LOADING", "AUTHENTICATED", "LOADING", "AUTHENTICATED">>)
    /\ [][\A j \in 1..Len(tasks) :
            AuthSucceeds(j) =>
                /\ access_state'.tag = "Authenticated"
                /\ access_state'.user_token.access_token = AuthToken(tasks[j])
                /\ inspector # None =>
                     inspector_out' = Append(inspector_out, Notification("AUTHENTICATED"))]_vars

\* two logins with different tokens, one after the other, the observer
\* notified of each step
C2_Witness ==
    \E i, j \in 1..Len(tasks) :
        /\ OneAfterTheOther(i, j)
        /\ AuthToken(tasks[i]) # AuthToken(tasks[j])
        /\ access_state = Authenticated(UserToken(AuthToken(tasks[j])))
        /\ TagsOf(inspector_out) = <<"LOADING", "AUTHENTICATED", "LOADING", "AUTHENTICATED">>

\* the validation of task i answers with a failure
AuthFails(i) ==
    /\ i \in 1..Len(tasks)
    /\ tasks[i].kind \in AuthKinds
    /\ tasks[i].pc = "validating"
    /\ tasks'[i].pc = "done"
    /\ calls'[PendingCall(i)].status = "err"

\* C3: when the validation fails, attempt_auth returns the failure and, after
\* its write of Loading, writes AccessState no more and notifies no more: a
\* state that was Loading stays Loading.
C3_FailedAuthLeavesLoading ==
    /\ [](\A i \in 1..Len(tasks) :
            (tasks[i].kind \in AuthKinds /\ tasks[i].pc = "validating")
                => calls[PendingCall(i)].op = "validate")
    /\ [][\A i \in 1..Len(tasks) :
            /\ AuthFails(i) =>
                 /\ tasks'[i].result = "err"
                 /\ access_state' = access_state
                 /\ inspector_out' = inspector_out
                 /\ session_properties' = session_properties
            /\ (tasks[i].kind \in AuthKinds /\ tasks[i].pc = "spawned"
                    /\ tasks'[i].pc = "validating")
                 => access_state' = Loading]_vars

\* a login failed and the state it left is still Loading
C3_Witness ==
    \E i \in 1..Len(tasks) :
        /\ tasks[i].kind \in AuthKinds
        /\ tasks[i].result = "err"
        /\ access_state = Loading
        /\ inspector # None
        /\ TagsOf(inspector_out) = <<"LOADING">>

\* C5: when the inspector, registered as the observer, sends LOGOUT, the
\* handler completes with the state NotAuthenticated, the properties
\* persisted with no access, and the observer notified NOT_AUTHENTICATED.
C5_LogoutCompletes ==
    [][(inspector # None /\ on_inspector_message("LOGOUT")) =>
          /\ ~blocked'
          /\ access_state' = NotAuthenticate
          /\ session_properties' = [written |-> TRUE, access |-> NoAccess]
          /\ inspector_out' = Append(inspector_out, Notification("NOT_AUTHENTICATED"))]_vars

\* a step that writes access_state: set_logged_out (state.rs 60), the
\* Loading write (95) or the Authenticated write (106) of attempt_auth
WritesAccessState ==
    \/ CallsSetLoggedOut
    \/ \E i \in 1..Len(tasks) :
           attempt_auth_begin(i) /\ tasks'[i].pc = "validating"
    \/ \E i \in 1..Len(tasks) : attempt_auth_end(i, "ok")

\* the last message in out went to insp and carries the tag of state
InSync(out, insp, state) ==
    /\ out # <<>>
    /\ out[Len(out)] = [to |-> insp, state |-> StateTag(state)]

StateTags == {"NOT_AUTHENTICATED", "LOADING", "AUTHENTICATED"}

\* C22: every tag sent is one of the three; a step that writes AccessState
\* with an observer registered sends that observer, in the same step, one
\* message with the tag of the state written; and an observer whose last
\* message showed the current state, and who stays registered over a step
\* that runs to its end, is again one whose last message shows the current
\* state.
C22_WritesNotified ==
    /\ [](\A k \in 1..Len(inspector_out) : inspector_out[k].state \in StateTags)
    /\ [][/\ (WritesAccessState /\ inspector # None) =>
                inspector_out' =
                    Append(inspector_out, Notification(StateTag(access_state')))
          /\ (/\ inspector # None
              /\ inspector' = inspector
              /\ ~blocked'
              /\ InSync(inspector_out, inspector, access_state)) =>
                InSync(inspector_out', inspector', access_state')]_vars

(***************************************************************************)
(* The tiles: logins, logouts and tile clicks with the tasks they spawn.   *)
(***************************************************************************)
ActionIds ==
    {"send_message", "clear_chat", "emote_only", "follower_only", "sub_only",
     "slow_mode", "ad_break", "marker", "create_clip", "open_clip",
     "viewer_count", "raid"}

Payloads ==
    {JNullPayload,
     JObject(JAbsent, JAbsent, JAbsent),
     JObject(JNull, JNull, JNull),
     JObject(JString(<<>>), JString(<<>>), JNumber(60)),
     JObject(JString(Text(MaxText, 0)), JString(Text(MaxText, 0)), JNumber(45)),
     JObject(JNumber(5), JNumber(5), JString(<<>>))}

\* the chat settings the platform answers with: no mode on, one, or all
Settings ==
    {settings \in ChatSettings :
        Cardinality({f \in DOMAIN settings : settings[f]}) \in {0, 1, 4}}

TaskBound == Len(tasks) < MaxTasks

NextDispatch ==
    \/ TaskBound /\ \E fragment \in Fragments : on_deep_link(fragment)
    \/ \E i \in 1..Len(tasks) : attempt_auth_begin(i)
    \/ \E i \in 1..Len(tasks), outcome \in Outcomes : attempt_auth_end(i, outcome)
    \/ \E message \in {"LOGOUT", "OPEN_AUTH_URL"} : on_inspector_message(message)
    \/ TaskBound /\ \E action_id \in ActionIds, properties \in Payloads :
           on_tile_clicked(action_id, properties)
    \/ \E i \in 1..Len(tasks) : single_begin(i)
    \/ \E i \in 1..Len(tasks), outcome \in Outcomes : single_end(i, outcome)
    \/ \E i \in 1..Len(tasks) : toggle_begin(i)
    \/ \E i \in 1..Len(tasks), outcome \in Outcomes, settings \in Settings :
           toggle_patch(i, outcome, settings)
    \/ \E i \in 1..Len(tasks), outcome \in Outcomes : toggle_end(i, outcome)

SpecDispatch == Init /\ [][NextDispatch]_vars

(***************************************************************************)
(* Properties of the tiles.                                                *)
(***************************************************************************)
\* the requests task i issued, in order
CallsOf(i) == SelectSeq(calls, LAMBDA c : c.task = i)

\* the platform operations of the tiles, start_comercial aside
PlatformOps == Spawning \ {"AdBreak"}

\* task i takes its first poll, with something to send
FirstPoll(i) ==
    /\ tasks[i].kind \in PlatformOps
    /\ tasks[i].pc = "spawned"
    /\ tasks'[i].pc # "spawned"
    /\ tasks[i].kind = "SendMessage" => tasks[i].arg.message.some

\* C4: get_user_token yields a credential exactly when the state is
\* Authenticated; so a platform operation that runs while the state is
\* NotAuthenticated or Loading fails with "not authenticated", issues no
\* request and is not tried again, and every request goes out with the
\* credential of the state.
C4_NoCredentialNoCall ==
    /\ [](get_user_token.some <=> access_state.tag = "Authenticated")
    /\ [][/\ \A i \in 1..Len(tasks) :
               /\ (FirstPoll(i) /\ access_state.tag # "Authenticated") =>
                    /\ calls' = calls
                    /\ tasks'[i].pc = "done"
                    /\ tasks'[i].result = "not_authenticated"
               /\ tasks[i].pc = "done" => tasks'[i] = tasks[i]
          /\ (Len(calls') > Len(calls) /\ calls'[Len(calls')].op # "validate") =>
               /\ access_state.tag = "Authenticated"
               /\ calls'[Len(calls')].token = access_state.user_token]_vars

\* a toggle and a chat message were refused for want of a credential
C4_Witness ==
    \E i, j \in 1..Len(tasks) :
        /\ tasks[i].kind \in Toggles
        /\ tasks[j].kind = "SendMessage"
        /\ tasks[i].result = "not_authenticated"
        /\ tasks[j].result = "not_authenticated"
        /\ calls = <<>>

\* C8: a SendMessage whose message is absent or has no chars performs no
\* chat-message request.
C8_EmptyMessageNoSend ==
    \A i \in 1..Len(tasks) :
        (tasks[i].kind = "SendMessage" /\ Len(tasks[i].arg.message.v) = 0)
            => CallsOf(i) = <<>>

RecognizedIds ==
    {"send_message", "clear_chat", "emote_only", "follower_only", "sub_only",
     "slow_mode", "ad_break", "marker", "create_clip", "open_clip", "viewer_count"}
EmptyObject == JObject(JAbsent, JAbsent, JAbsent)

\* C9: from_action answers None for every action_id outside the eleven it
\* knows, and decodes every one it knows from a payload without the optional
\* fields; when it answers None or an error, on_tile_clicked issues no
\* request and changes nothing.
C9_Decode ==
    /\ [](\A action_id \in ActionIds, properties \in Payloads :
            action_id \notin RecognizedIds => from_action(action_id, properties) = NoMatch)
    /\ [](\A action_id \in RecognizedIds :
            LET decoded == from_action(action_id, EmptyObject) IN
            /\ decoded.tag = "Ok"
            /\ decoded.action.message = NoText
            /\ decoded.action.description = NoText
            /\ decoded.action.length = NoLength)
    /\ [](\A i \in 1..Len(tasks) :
            tasks[i].kind \in Spawning =>
                \E action_id \in RecognizedIds, properties \in Payloads :
                    from_action(action_id, properties) = Decoded(tasks[i].arg))
    /\ [][\A action_id \in ActionIds, properties \in Payloads :
            (from_action(action_id, properties).tag # "Ok"
                /\ on_tile_clicked(action_id, properties)) => UNCHANGED vars]_vars

\* tiles without their optional fields were clicked and their tasks spawned
C9_Witness ==
    \E i, j \in 1..Len(tasks) :
        /\ tasks[i].kind = "Marker" /\ ~tasks[i].arg.description.some
        /\ tasks[j].kind = "SendMessage" /\ ~tasks[j].arg.message.some

\* the body C10 expects of the PATCH of a toggle, `got` being what the GET
\* returned
ExpectedPatch(kind, got) ==
    [slow_mode |-> IF kind = "SlowMode" THEN SomeBool(~got.slow_mode) ELSE None,
     emote_mode |-> IF kind = "EmoteOnly" THEN SomeBool(~got.emote_mode) ELSE None,
     follower_mode |->
        IF kind = "FollowerOnly" THEN SomeBool(~got.follower_mode) ELSE None,
     subscriber_mode |->
        IF kind = "SubOnly" THEN SomeBool(~got.subscriber_mode) ELSE None]

\* C10: a toggle issues one GET of the chat settings and then, if the GET
\* succeeded, one PATCH that sets the toggled field alone, to the negation
\* of what the GET returned; it ends well only after both.
C10_Toggle ==
    \A i \in 1..Len(tasks) :
        tasks[i].kind \in Toggles =>
            LET cs == CallsOf(i) IN
            /\ Len(cs) <= 2
            /\ Len(cs) >= 1 => cs[1].op = "get_chat_settings"
            /\ Len(cs) = 2 =>
                 /\ cs[1].status = "ok"
                 /\ cs[2].op = "update_chat_settings"
                 /\ cs[2].body = ExpectedPatch(tasks[i].kind, cs[1].resp)
            /\ tasks[i].result = "ok" => (Len(cs) = 2 /\ cs[2].status = "ok")

\* sub_only with subscriber_mode off: one GET, one PATCH turning it on
C10_Witness ==
    \E i \in 1..Len(tasks) :
        /\ tasks[i].kind = "SubOnly"
        /\ tasks[i].result = "ok"
        /\ Len(CallsOf(i)) = 2
        /\ ~CallsOf(i)[1].resp.subscriber_mode
        /\ CallsOf(i)[2].body =
             [slow_mode |-> None, emote_mode |-> None, follower_mode |-> None,
              subscriber_mode |-> "Some(true)"]

\* the shortest CommercialLength (Length30, plugin.rs 221)
ShortestLength == 30

\* C11: "ad_break" with the payload {} decodes to AdBreak without a length;
\* its task passes the shortest length, 30 seconds: polled while the state is
\* Authenticated it issues one start-commercial request with 30, and it
\* never issues another request.
C11_AdBreakDefault ==
    /\ [](from_action("ad_break", EmptyObject)
            = Decoded(Action("AdBreak", NoText, NoText, NoLength)))
    /\ [](\A i \in 1..Len(tasks) :
            (tasks[i].kind = "AdBreak" /\ ~tasks[i].arg.length.some) =>
                LET cs == CallsOf(i) IN
                /\ Len(cs) <= 1
                /\ \A k \in 1..Len(cs) :
                       cs[k].op = "start_commercial" /\ cs[k].body = ShortestLength
                /\ tasks[i].result \in {"ok", "err"} => Len(cs) = 1)
    /\ [][\A i \in 1..Len(tasks) :
            (/\ tasks[i].kind = "AdBreak"
             /\ ~tasks[i].arg.length.some
             /\ tasks[i].pc = "spawned"
             /\ tasks'[i].pc # "spawned"
             /\ access_state.tag = "Authenticated") =>
                calls' = Append(calls, Call(i, "start_commercial",
                                            access_state.user_token,
                                            ShortestLength))]_vars

\* an ad break without a length ran: one request, for 30 seconds, answered
C11_Witness ==
    \E i \in 1..Len(tasks) :
        /\ tasks[i].kind = "AdBreak"
        /\ ~tasks[i].arg.length.some
        /\ tasks[i].result = "ok"
        /\ Len(CallsOf(i)) = 1
        /\ CallsOf(i)[1].body = ShortestLength

(***************************************************************************)
(* Chat messages around the 500 limit: sent by a tile (plugin.rs 168-179)  *)
(* and through send_chat_message_chunked, with a login before and logouts  *)
(* at any moment.                                                          *)
(***************************************************************************)
\* texts of one-byte chars and of two-byte chars
Ascii(n) == [k \in 1..n |-> 32 + (k % 95)]
Wide(n) == [k \in 1..n |-> 1000 + (k % 95)]

LongTexts ==
    {Ascii(n) : n \in {0, ChunkLimit - 1, ChunkLimit, ChunkLimit + 1,
                       2 * ChunkLimit + 200}}
        \cup {Wide(n) : n \in {ChunkLimit \div 2, ChunkLimit + 1}}

\* the messages configured on tiles
TileTexts == {Ascii(n) : n \in {0, ChunkLimit, 2 * ChunkLimit + 200}}

NextChunk ==
    \/ TaskBound /\ \E fragment \in Fragments : on_deep_link(fragment)
    \/ \E i \in 1..Len(tasks) : attempt_auth_begin(i)
    \/ \E i \in 1..Len(tasks), outcome \in Outcomes : attempt_auth_end(i, outcome)
    \/ on_inspector_message("LOGOUT")
    \/ TaskBound /\ \E message \in TileTexts :
           on_tile_clicked("send_message", JObject(JString(message), JAbsent, JAbsent))
    \/ \E i \in 1..Len(tasks) : single_begin(i)
    \/ \E i \in 1..Len(tasks), outcome \in Outcomes : single_end(i, outcome)
    \/ TaskBound /\ \E message \in LongTexts : call_send_chat_message_chunked(message)
    \/ \E i \in 1..Len(tasks) : chunked_begin(i)
    \/ \E i \in 1..Len(tasks), outcome \in Outcomes : chunked_next(i, outcome)

SpecChunk == Init /\ [][NextChunk]_vars

(***************************************************************************)
(* Properties of long chat messages.                                       *)
(***************************************************************************)
CeilDiv(a, b) == (a + b - 1) \div b

\* the bodies of the requests cs, joined in order
RECURSIVE Joined(_)
Joined(cs) == IF cs = <<>> THEN <<>> ELSE Head(cs).body \o Joined(Tail(cs))

\* C6: a SendMessage tile whose message has n >= 500 chars sends it in
\* ceil(n/500) chat messages of at most 500 chars each, which joined in order
\* are the message.
C6_TileMessageChunked ==
    \A i \in 1..Len(tasks) :
        (tasks[i].kind = "SendMessage" /\ tasks[i].result = "ok"
            /\ Len(tasks[i].arg.message.v) >= ChunkLimit)
            => LET cs == CallsOf(i) IN
               /\ Len(cs) = CeilDiv(Len(tasks[i].arg.message.v), ChunkLimit)
               /\ \A k \in 1..Len(cs) : Len(cs[k].body) <= ChunkLimit
               /\ Joined(cs) = tasks[i].arg.message.v

\* C7: send_chat_message_chunked sends a chunk only after every chunk before
\* it was sent with success, the chunks follow the message in order, and a
\* failed send is the last one and is returned.
C7_ChunksInOrder ==
    \A i \in 1..Len(tasks) :
        tasks[i].kind = "chunked" =>
            LET cs == CallsOf(i) IN
            /\ \A k \in 1..(Len(cs) - 1) : cs[k].status = "ok"
            /\ Joined(cs) = SubSeq(tasks[i].arg, 1, Len(Joined(cs)))
            /\ (Len(cs) > 0 /\ cs[Len(cs)].status = "err") =>
                 (tasks[i].pc = "done" /\ tasks[i].result = "err")

\* a message of three chunks whose second send failed
C7_Witness ==
    \E i \in 1..Len(tasks) :
        /\ tasks[i].kind = "chunked"
        /\ Len(tasks[i].arg) > 2 * ChunkLimit
        /\ Len(CallsOf(i)) = 2
        /\ CallsOf(i)[1].status = "ok"
        /\ CallsOf(i)[2].status = "err"
        /\ tasks[i].result = "err"

(***************************************************************************)
(* The viewer count as time passes: displays asking, the polling task, a   *)
(* login and logouts at any moment.                                        *)
(***************************************************************************)
MaxTime == 6           \* seconds that pass

Displays == {"dispA", "dispB"}
StreamResponses == {NoStream, Stream(1), Stream(2)}
Registered == \E i \in 1..Len(tasks) : tasks[i].kind = "view_count"

NextView ==
    \/ ~Registered /\ on_registered
    \/ now < MaxTime /\ advance_time
    \/ \E display \in Displays, message \in DisplayMessages :
           on_display_message(display, message)
    \/ \E i \in 1..Len(tasks) : view_count_tick(i)
    \/ \E i \in 1..Len(tasks), outcome \in Outcomes, response \in StreamResponses :
           view_count_end(i, outcome, response)
    \/ NumAuthTasks = 0 /\ on_deep_link([kind |-> "ok", access_token |-> "tokA",
                                         scope |-> Scopes])
    \/ \E i \in 1..Len(tasks) : attempt_auth_begin(i)
    \/ \E i \in 1..Len(tasks), outcome \in Outcomes : attempt_auth_end(i, outcome)
    \/ on_inspector_message("LOGOUT")

SpecView == Init /\ [][NextView]_vars

(***************************************************************************)
(* Properties of the viewer count.                                         *)
(***************************************************************************)
\* the polling task i takes a turn in this step
Tick(i) ==
    /\ tasks[i].kind = "view_count"
    /\ tasks[i].pc \in {"spawned", "sleeping"}
    /\ tasks'[i].pc = "awaiting" \/ tasks'[i].tmp > tasks[i].tmp

\* the polling task i gets the answer to its request in this step
PollEnd(i) ==
    /\ tasks[i].kind = "view_count"
    /\ tasks[i].pc = "awaiting"
    /\ tasks'[i].pc = "sleeping"

Age(d) == now - d.last_alive
Issued(op) == Len(calls') = Len(calls) + 1 /\ calls'[Len(calls')].op = op
NoCall == Len(calls') = Len(calls)
Polls == SelectSeq(calls, LAMBDA c : c.op = "get_streams")

\* C12: a turn of the polling task that finds no live display, or finds the
\* state not Authenticated, issues no request and goes to sleep; when the
\* state is not Authenticated the live displays stay in the registry.
C12_NoPollWithoutDemand ==
    [][\A i \in 1..Len(tasks) :
         Tick(i) =>
            LET live == SelectSeq(view_displays, LAMBDA d : Age(d) < LiveSecs) IN
            /\ (live = <<>> \/ access_state.tag # "Authenticated") =>
                    (NoCall /\ tasks'[i].pc = "sleeping")
            /\ access_state.tag # "Authenticated" => view_displays' = live]_vars

\* logged out, a turn found a live display, kept it and asked nothing
C12_Witness ==
    \E i \in 1..Len(tasks) :
        /\ tasks[i].kind = "view_count"
        /\ tasks[i].pc = "sleeping"
        /\ ~tasks[i].result.polled
        /\ access_state.tag = "NotAuthenticate"
        /\ \E k \in 1..Len(view_displays) :
               view_displays[k].last_alive < tasks[i].result.at
        /\ Polls = <<>>

\* C13: a turn of the polling task keeps exactly the displays that asked
\* less than 5 seconds before it.  So with the state Authenticated a display
\* that asked at most 3 seconds before is kept and a request is issued, and
\* when every display asked 6 seconds before or earlier the registry is
\* emptied and no request is issued.
C13_LiveWithinFiveSeconds ==
    [][\A i \in 1..Len(tasks) :
         Tick(i) =>
            /\ view_displays' = SelectSeq(view_displays, LAMBDA d : Age(d) < 5)
            /\ (/\ access_state.tag = "Authenticated"
                /\ \E k \in 1..Len(view_displays) : Age(view_displays[k]) <= 3) =>
                    /\ \A k \in 1..Len(view_displays) :
                           Age(view_displays[k]) <= 3 =>
                               \E l \in 1..Len(view_displays') :
                                   view_displays'[l] = view_displays[k]
                    /\ Issued("get_streams")
            /\ (\A k \in 1..Len(view_displays) : Age(view_displays[k]) >= 6) =>
                    (view_displays' = <<>> /\ NoCall)]_vars

\* one turn purged a display idle for 6 seconds, kept one that asked 3
\* seconds before, and asked the platform
C13_Witness ==
    \E i \in 1..Len(tasks) :
        /\ tasks[i].kind = "view_count"
        /\ tasks[i].result.polled
        /\ \E k \in 1..Len(tasks[i].result.purged) :
               tasks[i].result.at - tasks[i].result.purged[k].last_alive >= 6
        /\ \E k \in 1..Len(view_displays) :
               view_displays[k].last_alive = tasks[i].result.at - 3

\* the count a response reports: that of the stream, none without a stream
ReportedCount(response) == IF response.some THEN response.v ELSE 0

\* C14: the cached count changes only when the polling task gets an answer;
\* an answer that succeeds overwrites it with the count reported, one that
\* fails leaves it.
C14_CacheWrittenByPolling ==
    [][/\ viewers' # viewers => \E i \in 1..Len(tasks) : PollEnd(i)
       /\ \A i \in 1..Len(tasks) :
             PollEnd(i) =>
                LET answer == calls'[PendingCall(i)] IN
                /\ answer.status = "ok" => viewers' = ReportedCount(answer.resp)
                /\ answer.status = "err" => viewers' = viewers]_vars

\* a display message was handled in this step
Asked ==
    \/ display_out' # display_out
    \/ Len(view_displays') >= Len(view_displays) /\ view_displays' # view_displays

\* C15: GET_VIEW_COUNT leaves the display in the registry once, seen now,
\* and the other displays as they were; in the same step the display is sent
\* the cached count, no request is issued and the cache is not touched.
\* The cached count is 0 as long as no poll has reported one.
C15_GetViewCount ==
    /\ []((\A k \in 1..Len(Polls) : ~(Polls[k].status = "ok" /\ Polls[k].resp.some))
            => viewers = 0)
    /\ [](\A k, l \in 1..Len(view_displays) :
            view_displays[k].display = view_displays[l].display => k = l)
    /\ [][Asked =>
            \E d \in Displays :
                /\ display_out' = ViewCount(d, viewers)
                /\ \E k \in 1..Len(view_displays') :
                       view_displays'[k] = ViewCountDisplay(d, now)
                /\ SelectSeq(view_displays', LAMBDA e : e.display # d)
                     = SelectSeq(view_displays, LAMBDA e : e.display # d)
                /\ NoCall
                /\ viewers' = viewers]_vars

\* a registered display asked again and was sent the count a poll stored
C15_Witness ==
    /\ viewers > 0
    /\ display_out.to \in Displays
    /\ display_out.count = viewers
    /\ Len(view_displays) = 2
    /\ \E k \in 1..Len(view_displays) :
           /\ view_displays[k].display = display_out.to
           /\ view_displays[k].last_alive = now
    /\ now > 0

\* the entries of the registry that belong to display d
EntriesOf(registry, d) ==
    {k \in 1..Len(registry) : registry[k].display = d}

\* C21: the registry never holds two entries of the same display, and a
\* GET_VIEW_COUNT of a display that is in the registry, however long ago
\* it was seen, adds no entry: the registry keeps its length and its order,
\* the entry of the display is seen now and the others are as they were.
C21_OneEntryPerDisplay ==
    /\ [](\A d \in Displays : Cardinality(EntriesOf(view_displays, d)) <= 1)
    /\ [][\A d \in Displays :
            (/\ EntriesOf(view_displays, d) # {}
             /\ on_display_message(d, "GET_VIEW_COUNT")) =>
                /\ Len(view_displays') = Len(view_displays)
                /\ \A k \in 1..Len(view_displays) :
                       view_displays'[k] =
                           IF view_displays[k].display = d
                           THEN ViewCountDisplay(d, now)
                           ELSE view_displays[k]]_vars

\* two displays are registered; the one registered first asked again later
\* than the other registered, and it is still the first of two entries
C21_Witness ==
    /\ Len(view_displays) = 2
    /\ view_displays[1].last_alive = now
    /\ view_displays[2].last_alive < now
    /\ display_out.to = view_displays[1].display

\* the count of the last answer that reported a stream, 0 before any did
LastLiveCount ==
    LET live == SelectSeq(Polls, LAMBDA c : c.status = "ok" /\ c.resp.some) IN
    IF live = <<>> THEN 0 ELSE live[Len(live)].resp.v

\* C23: an answer that succeeds and reports no stream leaves the cached
\* count as it was.  So the cache always holds the count of the last answer
\* that reported a stream (0 before any did), and that is the count a
\* GET_VIEW_COUNT is answered with.
C23_OfflineKeepsCount ==
    /\ [](viewers = LastLiveCount)
    /\ [][/\ \A i \in 1..Len(tasks) :
                PollEnd(i) =>
                    LET answer == calls'[PendingCall(i)] IN
                    (answer.status = "ok" /\ ~answer.resp.some) =>
                        viewers' = viewers
          /\ \A d \in Displays :
                on_display_message(d, "GET_VIEW_COUNT") =>
                    display_out' = ViewCount(d, LastLiveCount)]_vars

\* the last answer succeeded without a stream, the cache still holds the
\* count of an earlier answer, and a display that asked after that last
\* answer was sent this count
C23_Witness ==
    /\ viewers > 0
    /\ Polls # <<>>
    /\ Polls[Len(Polls)].status = "ok"
    /\ ~Polls[Len(Polls)].resp.some
    /\ display_out.count = viewers
    /\ \E i \in 1..Len(tasks), k \in 1..Len(view_displays) :
           /\ tasks[i].kind = "view_count"
           /\ tasks[i].pc = "sleeping"
           /\ view_displays[k].display = display_out.to
           /\ view_displays[k].last_alive > tasks[i].tmp - SleepSecs

(***************************************************************************)
(* The observer: two inspectors opening and closing, asking for the state, *)
(* logins and logouts.                                                     *)
(***************************************************************************)
MaxNotes == 3          \* inspector_out entries up to which GET_STATE is taken

Observers == {"insp1", "insp2"}

NextObserver ==
    \/ \E insp \in Observers : on_inspector_open(insp)
    \/ on_inspector_close
    \/ Len(inspector_out) < MaxNotes /\ on_inspector_message("GET_STATE")
    \/ on_inspector_message("LOGOUT")
    \/ NumAuthTasks = 0 /\ on_deep_link([kind |-> "ok", access_token |-> "tokA",
                                         scope |-> Scopes])
    \/ \E i \in 1..Len(tasks) : attempt_auth_begin(i)
    \/ \E i \in 1..Len(tasks), outcome \in Outcomes : attempt_auth_end(i, outcome)

SpecObserver == Init /\ [][NextObserver]_vars

\* C16: the plugin holds one observer at most, the one the host opened last
\* unless it was closed since; every notification goes to that observer, and
\* nothing is sent while there is none.
C16_OneObserver ==
    /\ [](/\ inspector \in Observers \cup {None}
          /\ inspector # None => inspector = last_opened
          /\ inspector = None =>
                \A state \in {NotAuthenticate, Loading, access_state},
                   held \in BOOLEAN :
                    update_inspector(state, held).out = inspector_out)
    /\ [][/\ last_opened' # last_opened => inspector' = last_opened'
          /\ Len(inspector_out') >= Len(inspector_out)
          /\ SubSeq(inspector_out', 1, Len(inspector_out)) = inspector_out
          /\ \A k \in (Len(inspector_out) + 1)..Len(inspector_out') :
                /\ inspector # None
                /\ inspector_out'[k].to = inspector
                /\ inspector_out'[k].to = last_opened]_vars

\* the first inspector was notified, the second replaced it and was notified
C16_Witness ==
    /\ inspector = "insp2"
    /\ \E k, l \in 1..Len(inspector_out) :
           /\ k < l
           /\ inspector_out[k].to = "insp1"
           /\ inspector_out[l].to = "insp2"

\* C17: when set_logged_out has run while the validation of an attempt_auth
\* was in flight (the state it finds is NotAuthenticated) and the validation
\* succeeds, attempt_auth commits all the same: the state becomes
\* Authenticated with the validated credential and the observer, if there
\* is one, is sent AUTHENTICATED last.
C17_StaleValidationCommits ==
    [][\A i \in 1..Len(tasks) :
         (AuthSucceeds(i) /\ access_state.tag = "NotAuthenticate") =>
            /\ access_state' = Authenticated(UserToken(AuthToken(tasks[i])))
            /\ inspector # None =>
                 /\ Len(inspector_out') = Len(inspector_out) + 1
                 /\ inspector_out'[Len(inspector_out')] = Notification("AUTHENTICATED")]_vars

\* a login whose observer saw LOADING, then NOT_AUTHENTICATED after a logout,
\* then AUTHENTICATED, which is the last it was sent
C17_Witness ==
    \E i \in 1..Len(tasks) :
        /\ NotifiedAuth(i)
        /\ \E k \in 1..Len(inspector_out) :
               /\ tasks[i].tmp[1] < k
               /\ k < tasks[i].tmp[2]
               /\ inspector_out[k].state = "NOT_AUTHENTICATED"
        /\ tasks[i].tmp[2] = Len(inspector_out)
        /\ inspector_out[Len(inspector_out)].state = "AUTHENTICATED"
        /\ access_state = Authenticated(UserToken(AuthToken(tasks[i])))

\* the place in calls of the validation of the attempt_auth of task i: the
\* order of these places is the order in which the attempts started
Started(i) == CHOOSE c \in 1..Len(calls) : calls[c].task = i /\ calls[c].op = "validate"

\* C18: when an attempt_auth succeeds while no other validation is in flight,
\* the state holds the credential of the attempt that started last among the
\* attempts that succeeded, also when that one was overtaken, its validation
\* having answered first.
C18_LatestStartedWins ==
    [][\A i \in 1..Len(tasks) :
         (/\ AuthSucceeds(i)
          /\ \A j \in 1..Len(tasks) : j # i => tasks[j].pc # "validating") =>
            LET succeeded == {j \in 1..Len(tasks) :
                                 /\ tasks[j].kind \in AuthKinds
                                 /\ j = i \/ tasks[j].result = "ok"}
                latest == CHOOSE j \in succeeded :
                              \A l \in succeeded : Started(l) <= Started(j)
            IN access_state' = Authenticated(UserToken(AuthToken(tasks[latest])))]_vars

(***************************************************************************)
(* Tasks suspended at their awaits while callbacks run: logins, logouts,   *)
(* toggles, a chunked message and the polling of the viewer count (at one  *)
(* instant).                                                               *)
(***************************************************************************)
RaceBound == Len(tasks) < MaxTasks + 1

RaceMessage == Ascii(ChunkLimit + 1)
RaceSettings == {settings \in ChatSettings : \A f \in DOMAIN settings : ~settings[f]}

NextRace ==
    \/ RaceBound /\ NumAuthTasks = 0
          /\ on_deep_link([kind |-> "ok", access_token |-> "tokA", scope |-> Scopes])
    \/ \E i \in 1..Len(tasks) : attempt_auth_begin(i)
    \/ \E i \in 1..Len(tasks), outcome \in Outcomes : attempt_auth_end(i, outcome)
    \/ on_inspector_message("LOGOUT")
    \/ RaceBound /\ on_tile_clicked("sub_only", EmptyObject)
    \/ \E i \in 1..Len(tasks) : toggle_begin(i)
    \/ \E i \in 1..Len(tasks), outcome \in Outcomes, settings \in RaceSettings :
           toggle_patch(i, outcome, settings)
    \/ \E i \in 1..Len(tasks), outcome \in Outcomes : toggle_end(i, outcome)
    \/ RaceBound /\ call_send_chat_message_chunked(RaceMessage)
    \/ \E i \in 1..Len(tasks) : chunked_begin(i)
    \/ \E i \in 1..Len(tasks), outcome \in Outcomes : chunked_next(i, outcome)
    \/ RaceBound /\ ~Registered /\ on_registered
    \/ on_display_message("dispA", "GET_VIEW_COUNT")
    \/ \E i \in 1..Len(tasks) : view_count_tick(i)
    \/ \E i \in 1..Len(tasks), outcome \in Outcomes, response \in StreamResponses :
           view_count_end(i, outcome, response)

SpecRace == Init /\ [][NextRace]_vars

\* task i stands at an await
Suspended(i) == tasks[i].pc \in {"validating", "awaiting", "chunk", "sleeping"}

\* the request task i awaits is answered in this step
Answered(i, op) ==
    /\ Suspended(i)
    /\ tasks[i].pc # "sleeping"
    /\ calls[PendingCall(i)].op = op
    /\ calls'[PendingCall(i)].status # "pending"

\* C19: a request other than a validation is issued only in a step that
\* finds the state Authenticated, and with the credential of that state.  So
\* a toggle whose GET is answered after a logout issues no PATCH, and a
\* chunked message whose chunk is answered after a logout sends no further
\* chunk: both end with "not authenticated" unless the answer was a failure
\* (or the chunk was the last).
C19_CredentialReadAtCallTime ==
    [][/\ \A k \in (Len(calls) + 1)..Len(calls') :
             calls'[k].op # "validate" =>
                /\ access_state.tag = "Authenticated"
                /\ calls'[k].token = access_state.user_token
       /\ \A i \in 1..Len(tasks) :
             (/\ tasks[i].kind \in Toggles \cup {"chunked"}
              /\ Answered(i, IF tasks[i].kind = "chunked" THEN "send_chat_message"
                                                           ELSE "get_chat_settings")
              /\ access_state.tag # "Authenticated") =>
                /\ NoCall
                /\ tasks'[i].pc = "done"
                /\ (tasks[i].kind = "chunked" => tasks[i].tmp < Len(tasks[i].arg))
                      => tasks'[i].result \in {"not_authenticated", "err"}]_vars

\* a logout landed between the GET and the PATCH of a toggle and between
\* the two chunks of a message: neither the PATCH nor the second chunk went
C19_Witness ==
    \E i, j \in 1..Len(tasks) :
        /\ tasks[i].kind \in Toggles
        /\ tasks[i].result = "not_authenticated"
        /\ Len(CallsOf(i)) = 1
        /\ CallsOf(i)[1].status = "ok"
        /\ tasks[j].kind = "chunked"
        /\ tasks[j].result = "not_authenticated"
        /\ Len(CallsOf(j)) = 1
        /\ CallsOf(j)[1].status = "ok"
        /\ Len(CallsOf(j)[1].body) < Len(tasks[j].arg)

\* C20: the mutex of AccessState is free whenever a task has just suspended
\* at an await, and it is never held between two steps unless the thread is
\* parked inside a host callback: a task at an await does not hold it.
C20_NoLockAcrossAwait ==
    /\ [](lock_held => blocked)
    /\ [][\A i \in 1..Len(tasks) :
            (Suspended(i)' /\ tasks'[i].pc # tasks[i].pc) => ~lock_held']_vars

\* a toggle and the polling task stand at their awaits with the mutex free,
\* and a logout has taken it and given it back meanwhile
C20_Witness ==
    /\ ~lock_held
    /\ access_state = NotAuthenticate
    /\ \E j, k \in 1..Len(tasks) :
           /\ tasks[j].kind \in Toggles /\ tasks[j].pc = "awaiting"
           /\ tasks[k].kind = "view_count" /\ tasks[k].pc = "sleeping"

====
